---- MODULE Spec2Model ----
(***************************************************************************)
(* A model of examples/sound/cdstream/stream.c (PSn00bSDK): the SPU        *)
(* streaming API.  A ring buffer per Stream_Context is filled by mainline  *)
(* code (Stream_GetFeedPtr / Stream_Feed) and drained, one chunk at a      *)
(* time, by the SPU IRQ handler, which uploads the chunk to SPU RAM with a *)
(* DMA transfer whose completion handler re-enables the SPU IRQ.           *)
(*                                                                         *)
(* Execution model.  The mainline runs one API call at a time (pc, frame). *)
(* The two interrupt handlers run to completion and may run between any    *)
(* two mainline steps; a mainline call is cut into steps wherever it reads *)
(* or writes state the handlers share outside a critical section.  The SPU *)
(* IRQ may be raised whenever bit 6 of SPU_CTRL is set, the DMA IRQ        *)
(* whenever a transfer is in flight.  A call of _spu_irq_handler made by   *)
(* Stream_Start is one run of the handler, like a run the SPU raises: its   *)
(* first statement masks the SPU IRQ.  One transfer is in flight at a      *)
(* time: SpuWrite replaces the one before.                                 *)
(*                                                                         *)
(* Stream_Init and Stream_Destroy have a specification of their own,       *)
(* SpecLife, which follows the installed handlers while contexts come and  *)
(* go; in the streaming specifications every context is initialised and    *)
(* none is destroyed.                                                      *)
(*                                                                         *)
(* Not modelled: Stream_SetSampleRate and the pitch and envelope           *)
(* registers, and the bytes of the buffer.                                 *)
(***************************************************************************)
EXTENDS Integers, Sequences, FiniteSets, TLC

(* ------------------------------ bounds -------------------------------- *)

\* config.buffer_size of the context of the single-stream specification
BufferSize == 8

\* config.interleave (bytes per channel in a chunk)
Interleave == 1

\* config.refill_threshold
RefillThreshold == 4

\* chunk_counter is not counted beyond this many chunks per context
MaxChunks == 8

\* the same, in the specification of two streams
MaxChunksTwo == 2

\* the same, in the specification with fairness
MaxChunksFair == 3

\* contexts that Stream_Init and Stream_Destroy are called on
MaxContexts == 3

(* --------------------------- program constants ------------------------ *)

NULL == 0

DUMMY_BLOCK_ADDR == 4096

\* the hardware channels the model keeps registers for
Channels == 0..2

\* value of the caller's pointer variable when Stream_GetFeedPtr did not
\* store to it
Unwritten == -1

Min(x, y) == IF x < y THEN x ELSE y

VARIABLES
    irq_handler,       \* the callback installed for IRQ_SPU
    dma_handler,       \* the callback installed for DMA_SPU
    old_handler,       \* ctx->old_irq_handler, ctx->old_dma_handler
    buffer_data,       \* ctx->buffer.data: "allocated" or "freed"
    prior,             \* the callbacks installed before the first Stream_Init
    config,            \* ctx->config of every initialised context
    chunk_limit,       \* chunks counted per context in this specification
    ctx,               \* the Stream_Context structs (without config)
    active_ctx,        \* _active_ctx
    spu_irq_enable,    \* bit 6 of SPU_CTRL
    SPU_IRQ_ADDR,      \* byte address the SPU raises its IRQ at
    SPU_CH_LOOP_ADDR,  \* per channel loop address (bytes)
    SPU_CH_ADDR,       \* per channel start address (bytes)
    spu_key,           \* per channel: last SpuSetKey value
    transfer,          \* the SPU DMA transfer in flight
    pc,                \* where the mainline is
    frame,             \* locals of the mainline call in progress
    caller,            \* what the last Stream_GetFeedPtr handed the producer
    hist,              \* per context history of feeds and callbacks
    last               \* what the last step did (callbacks, return value)

vars == <<irq_handler, dma_handler, old_handler, buffer_data, prior,
          config, chunk_limit, ctx, active_ctx, spu_irq_enable, SPU_IRQ_ADDR,
          SPU_CH_LOOP_ADDR, SPU_CH_ADDR, spu_key, transfer, pc, frame,
          caller, hist, last>>

system == <<irq_handler, dma_handler, old_handler, buffer_data, prior>>

spu == <<SPU_IRQ_ADDR, SPU_CH_LOOP_ADDR, SPU_CH_ADDR, spu_key>>

Ctx == DOMAIN config

(* ------------------------------ Stream_Init --------------------------- *)

RECURSIVE NumChannels(_)
NumChannels(mask) ==
    IF mask = 0 THEN 0 ELSE (mask % 2) + NumChannels(mask \div 2)

\* the context Stream_Init leaves behind
Stream_Init(cfg) ==
    [ head            |-> 0,
      tail            |-> 0,
      length          |-> 0,
      num_channels    |-> NumChannels(cfg.channel_mask),
      chunk_size      |-> cfg.interleave * NumChannels(cfg.channel_mask),
      db_active       |-> 0,
      buffering       |-> FALSE,
      callback_issued |-> FALSE,
      chunk_counter   |-> 0 ]

Config1 ==
    [ channel_mask       |-> 5,
      interleave         |-> Interleave,
      spu_address        |-> 4112,
      buffer_size        |-> BufferSize,
      refill_threshold   |-> RefillThreshold,
      refill_callback    |-> TRUE,
      underrun_callback  |-> TRUE ]

NoTransfer == [busy |-> FALSE, ctx |-> NULL, src |-> 0, dst |-> 0, size |-> 0]

\* runs: calls of the handler made so far by the Stream_Start in progress
\* primed: number of the chunk its first call dequeued, 0 if none
\* waited: it has been through SpuIsTransferCompleted
NoFrame == [ctx |-> NULL, n |-> 0, unbuf_total |-> 0, length |-> 0,
            resume |-> FALSE, runs |-> 0, primed |-> 0, waited |-> FALSE]

NoCall == [fresh |-> NULL, ptr |-> Unwritten, len |-> 0]

\* balance: bytes fed minus bytes consumed, while no feed was cut short
\* lost: a feed was cut short by the clamp
\* pristine: no chunk consumed yet and every feed so far was a
\*     Stream_GetFeedPtr / Stream_Feed(n) pair with n within the length returned
\* feeds: feeds committed while pristine (counted up to 2)
\* dip_refills: refill callbacks since length was last above the threshold
NoHist == [balance |-> 0, lost |-> FALSE, pristine |-> TRUE,
           feeds |-> 0, dip_refills |-> 0]

Step(op, c, path, refill, underrun, ret) ==
    [op |-> op, ctx |-> c, path |-> path, refill |-> refill,
     underrun |-> underrun, ret |-> ret]

\* the callbacks the library installs
StreamHandlers == [irq |-> "_spu_irq_handler", dma |-> "_spu_dma_handler"]

\* callbacks that may be installed before the library is used: none, or
\* the application's own
PriorHandlers == {[irq |-> "none", dma |-> "none"],
                  [irq |-> "app_irq", dma |-> "app_dma"]}

\* the callbacks after Stream_Init has been called on the contexts of cfgs,
\* in order, with the callbacks of before installed at first
InitHandlers(cfgs, before) ==
    /\ prior = before
    /\ irq_handler = IF DOMAIN cfgs = {} THEN before.irq ELSE StreamHandlers.irq
    /\ dma_handler = IF DOMAIN cfgs = {} THEN before.dma ELSE StreamHandlers.dma
    /\ old_handler = [c \in DOMAIN cfgs |->
                          IF c = 1 THEN before ELSE StreamHandlers]
    /\ buffer_data = [c \in DOMAIN cfgs |-> "allocated"]

\* Stream_Init has been called on the contexts of cfgs, in order
InitWith(cfgs, limit) ==
    /\ InitHandlers(cfgs, [irq |-> "none", dma |-> "none"])
    /\ config = cfgs
    /\ chunk_limit = limit
    /\ ctx = [c \in DOMAIN cfgs |-> Stream_Init(cfgs[c])]
    /\ active_ctx = NULL
    /\ spu_irq_enable = FALSE
    /\ SPU_IRQ_ADDR = 0
    /\ SPU_CH_LOOP_ADDR = [ch \in Channels |-> DUMMY_BLOCK_ADDR]
    /\ SPU_CH_ADDR = [ch \in Channels |-> DUMMY_BLOCK_ADDR]
    /\ spu_key = [ch \in Channels |-> FALSE]
    /\ transfer = NoTransfer
    /\ pc = "idle"
    /\ frame = NoFrame
    /\ caller = NoCall
    /\ hist = [c \in DOMAIN cfgs |-> NoHist]
    /\ last = Step("init", NULL, "none", FALSE, FALSE, "none")

\* a buffer that is not a whole number of chunks, and no callbacks
ConfigOdd ==
    [ Config1 EXCEPT !.buffer_size = BufferSize - 1,
                     !.refill_callback = FALSE,
                     !.underrun_callback = FALSE ]

\* one stream, of either configuration
Init == \E cfg \in {Config1, ConfigOdd} : InitWith(<<cfg>>, MaxChunks)

\* two streams, with small buffers: one of two channels, one of a single
\* channel and no callbacks
Config2 ==
    [ Config1 EXCEPT !.channel_mask = 5, !.interleave = 1,
                     !.buffer_size = 2, !.refill_threshold = 0 ]

Config3 ==
    [ Config1 EXCEPT !.channel_mask = 2, !.interleave = 1,
                     !.buffer_size = 2, !.refill_threshold = 1,
                     !.spu_address = 8192,
                     !.refill_callback = FALSE,
                     !.underrun_callback = FALSE ]

InitTwo == InitWith(<<Config2, Config3>>, MaxChunksTwo)

(* --------------------------- _spu_irq_handler ------------------------- *)

\* mutant: a buffer holding exactly one chunk counts as an underrun
Underrun_Inclusive(length, chunk_size) == length - chunk_size <= 0

\* int length = buffer.length - chunk_size; if (length < 0): underrun
Underrun(length, chunk_size) == length - chunk_size < 0

\* mutant: the tail is not wrapped
NextTail_NoWrap(tail, chunk_size, buffer_size) == tail + chunk_size

\* buffer.tail = (tail + chunk_size) % buffer_size
NextTail(tail, chunk_size, buffer_size) == (tail + chunk_size) % buffer_size

\* mutant: the threshold itself does not count as low
RefillDue_Strict(length, refill_threshold, callback_issued) ==
    length < refill_threshold /\ ~callback_issued

\* (length <= refill_threshold) && !callback_issued
RefillDue(length, refill_threshold, callback_issued) ==
    length <= refill_threshold /\ ~callback_issued

\* mutant: every chunk goes to the first half
ChunkAddress_FirstHalf(cfg, db_active, chunk_size) == cfg.spu_address

\* spu_address + (db_active ? chunk_size : 0)
ChunkAddress(cfg, db_active, chunk_size) ==
    cfg.spu_address + (IF db_active # 0 THEN chunk_size ELSE 0)

\* the loop over channel_mask: regs[ch] = address + offset for every set
\* bit, offset growing by interleave
RECURSIVE SetChannelAddrs(_, _, _, _, _)
SetChannelAddrs(regs, mask, ch, address, interleave) ==
    IF mask = 0 \/ ch \notin DOMAIN regs THEN regs
    ELSE IF mask % 2 = 0
         THEN SetChannelAddrs(regs, mask \div 2, ch + 1, address, interleave)
         ELSE SetChannelAddrs([regs EXCEPT ![ch] = address], mask \div 2,
                              ch + 1, address + interleave, interleave)

\* mutant: the new length is not stored
Dequeue_StaleLength(s, cfg) ==
    [s EXCEPT !.db_active     = 1 - @,
              !.buffering     = TRUE,
              !.chunk_counter = @ + 1,
              !.tail          = NextTail(s.tail, s.chunk_size, cfg.buffer_size)]

\* mutant: the double-buffer index is left alone
Dequeue_NoToggle(s, cfg) ==
    [Dequeue_StaleLength(s, cfg) EXCEPT
        !.db_active = s.db_active,
        !.length = s.length - s.chunk_size,
        !.callback_issued =
            IF RefillDue(s.length - s.chunk_size, cfg.refill_threshold,
                         s.callback_issued) THEN TRUE ELSE @]

\* a context after a chunk has been pulled from its ring buffer
Dequeue(s, cfg) ==
    LET length == s.length - s.chunk_size
        issue  == RefillDue(length, cfg.refill_threshold, s.callback_issued)
    IN  [s EXCEPT !.db_active       = 1 - @,
                  !.buffering       = TRUE,
                  !.chunk_counter   = @ + 1,
                  !.tail            = NextTail(s.tail, s.chunk_size,
                                               cfg.buffer_size),
                  !.length          = length,
                  !.callback_issued = IF issue THEN TRUE ELSE @]

\* mutant: the underrun path returns with the SPU IRQ still masked
UnderrunIrqEnable_Masked == FALSE

\* line 54, SPU_CTRL |= 1 << 6: bit 6 as the underrun path leaves it
UnderrunIrqEnable == TRUE

\* One run of the handler from the current state: the path it takes, the
\* callbacks it invokes and the values it leaves behind.
spu_irq_handler ==
    LET c == active_ctx
        same == [ctx |-> ctx, irq_addr |-> SPU_IRQ_ADDR,
                 loop |-> SPU_CH_LOOP_ADDR, transfer |-> transfer,
                 refill |-> FALSE, underrun |-> FALSE]
    IN  IF c = NULL
        THEN same @@ [path |-> "null", irq_enable |-> FALSE]
        ELSE IF Underrun(ctx[c].length, ctx[c].chunk_size)
        THEN [same EXCEPT !.underrun = config[c].underrun_callback]
                 @@ [path |-> "underrun", irq_enable |-> UnderrunIrqEnable]
        ELSE LET s       == Dequeue(ctx[c], config[c])
                 address == ChunkAddress(config[c], s.db_active, s.chunk_size)
             IN  [ path       |-> "dequeue",
                   irq_enable |-> FALSE,
                   ctx        |-> [ctx EXCEPT ![c] = s],
                   irq_addr   |-> address,
                   loop       |-> SetChannelAddrs(SPU_CH_LOOP_ADDR,
                                      config[c].channel_mask, 0, address,
                                      config[c].interleave),
                   transfer   |-> [busy |-> TRUE, ctx |-> c,
                                   src |-> ctx[c].tail, dst |-> address,
                                   size |-> s.chunk_size],
                   refill     |-> /\ RefillDue(s.length,
                                        config[c].refill_threshold,
                                        ctx[c].callback_issued)
                                  /\ config[c].refill_callback,
                   underrun   |-> FALSE ]

\* history: bytes fed minus bytes consumed, refill callbacks in this dip
HistAfterIrq(r) ==
    IF r.path # "dequeue" THEN hist
    ELSE [hist EXCEPT
            ![active_ctx].pristine = FALSE,
            ![active_ctx].feeds = 0,
            ![active_ctx].balance =
                IF hist[active_ctx].lost THEN 0
                ELSE @ - ctx[active_ctx].chunk_size,
            ![active_ctx].dip_refills = IF r.refill THEN Min(@ + 1, 2) ELSE @]

\* the handler's effect on everything it touches
RunIrqHandler(r) ==
    /\ r.path = "dequeue" => ctx[active_ctx].chunk_counter < chunk_limit
    /\ spu_irq_enable' = r.irq_enable
    /\ ctx' = r.ctx
    /\ SPU_IRQ_ADDR' = r.irq_addr
    /\ SPU_CH_LOOP_ADDR' = r.loop
    /\ transfer' = r.transfer
    /\ hist' = HistAfterIrq(r)

\* the SPU raises its IRQ
SpuIrq ==
    /\ pc # "crashed"
    /\ spu_irq_enable
    /\ RunIrqHandler(spu_irq_handler)
    /\ last' = Step("irq", active_ctx, spu_irq_handler.path,
                    spu_irq_handler.refill, spu_irq_handler.underrun, "none")
    /\ UNCHANGED <<system, config, chunk_limit, active_ctx, SPU_CH_ADDR, spu_key, pc, frame, caller>>

(* --------------------------- _spu_dma_handler ------------------------- *)

\* the transfer completes with a stream bound
SpuDma ==
    /\ pc # "crashed"
    /\ transfer.busy
    /\ active_ctx # NULL
    /\ transfer' = NoTransfer
    /\ spu_irq_enable' = TRUE
    /\ ctx' = [ctx EXCEPT ![active_ctx].buffering = FALSE]
    /\ last' = Step("dma", active_ctx, "none", FALSE, FALSE, "none")
    /\ UNCHANGED <<system, config, chunk_limit, active_ctx, spu, pc, frame, caller, hist>>

\* the transfer completes with _active_ctx null: the store goes through a
\* null pointer and lands outside every context
SpuDmaNullStore ==
    /\ pc # "crashed"
    /\ transfer.busy
    /\ active_ctx = NULL
    /\ transfer' = NoTransfer
    /\ spu_irq_enable' = TRUE
    /\ last' = Step("dma", NULL, "null", FALSE, FALSE, "none")
    /\ UNCHANGED <<system, config, chunk_limit, ctx, active_ctx, spu, pc, frame, caller, hist>>

\* ... or the machine stops on it
SpuDmaNullFault ==
    /\ pc # "crashed"
    /\ transfer.busy
    /\ active_ctx = NULL
    /\ transfer' = NoTransfer
    /\ spu_irq_enable' = TRUE
    /\ pc' = "crashed"
    /\ last' = Step("dma", NULL, "null", FALSE, FALSE, "none")
    /\ UNCHANGED <<system, config, chunk_limit, ctx, active_ctx, spu, frame, caller, hist>>

(* -------- Stream_IsActive, Stream_GetRefillLength, Stream_GetFeedPtr -- *)

Stream_IsActive(c) == c = active_ctx

\* (int) buffer_size - (int) buffer.length
UnbufTotal(c) == config[c].buffer_size - ctx[c].length

Stream_GetRefillLength(c) == IF UnbufTotal(c) <= 0 THEN 0 ELSE UnbufTotal(c)

\* mutant: the free space is not limited to the end of the buffer
FeedPtrLength_TotalOnly(unbuf_total, unbuf_head) ==
    IF unbuf_total <= 0 THEN 0 ELSE unbuf_total

\* the value Stream_GetFeedPtr returns
FeedPtrLength(unbuf_total, unbuf_head) ==
    IF unbuf_total <= 0 THEN 0 ELSE Min(unbuf_total, unbuf_head)

\* what it stores through ptr: &data[head], or nothing when it returns 0
FeedPtrTarget(unbuf_total, head) ==
    IF unbuf_total <= 0 THEN Unwritten ELSE head

Stream_GetFeedPtr(c) ==
    /\ pc = "idle"
    /\ caller' = [ fresh |-> c,
                   ptr   |-> FeedPtrTarget(UnbufTotal(c), ctx[c].head),
                   len   |-> FeedPtrLength(UnbufTotal(c),
                                config[c].buffer_size - ctx[c].head) ]
    /\ last' = Step("get_feed_ptr", c, "none", FALSE, FALSE, "none")
    /\ UNCHANGED <<system, config, chunk_limit, ctx, active_ctx, spu_irq_enable, spu, transfer,
                   pc, frame, hist>>

(* ------------------------------ Stream_Feed --------------------------- *)

\* mutant: one byte of the buffer is always kept free
FeedClamp_KeepOneFree(length, unbuf_total) ==
    IF unbuf_total < 1 THEN 0 ELSE Min(length, unbuf_total - 1)

\* mutant: the length is not clamped
FeedClamp_None(length, unbuf_total) == length

\* length = _min(length, unbuf_total): size_t against int, compared
\* unsigned, so that a negative unbuf_total is above every length fed here
FeedClamp(length, unbuf_total) ==
    IF unbuf_total < 0 THEN length ELSE Min(length, unbuf_total)

\* mutant: the head is not wrapped
NextHead_NoWrap(head, length, buffer_size) == head + length

\* buffer.head = (head + length) % buffer_size
NextHead(head, length, buffer_size) == (head + length) % buffer_size

\* new_length > refill_threshold: the refill flag is cleared
RefillRearm(new_length, refill_threshold) == new_length > refill_threshold

\* the bytes a caller may ask Stream_Feed to commit
FeedLengths(c) == 0..(config[c].buffer_size + 1)

\* lines 251-252, before the critical section
FeedCall(c, n) ==
    /\ pc = "idle"
    /\ pc' = "feed"
    /\ frame' = [NoFrame EXCEPT !.ctx = c, !.n = n,
                                !.unbuf_total = UnbufTotal(c),
                                !.length = FeedClamp(n, UnbufTotal(c))]
    /\ hist' = [hist EXCEPT
                    ![c].pristine = @ /\ caller.fresh = c /\ n <= caller.len,
                    ![c].feeds = IF caller.fresh = c /\ n <= caller.len
                                 THEN @ ELSE 0]
    /\ caller' = NoCall
    /\ last' = Step("feed_call", c, "none", FALSE, FALSE, "none")
    /\ UNCHANGED <<system, config, chunk_limit, ctx, active_ctx, spu_irq_enable, spu, transfer>>

\* lines 254-263, the critical section
FeedCommit ==
    /\ pc = "feed"
    /\ LET c          == frame.ctx
           new_length == ctx[c].length + frame.length
           short      == hist[c].lost \/ frame.length # frame.n
       IN  /\ ctx' = [ctx EXCEPT
                  ![c].head   = NextHead(@, frame.length,
                                         config[c].buffer_size),
                  ![c].length = new_length,
                  ![c].callback_issued =
                      IF RefillRearm(new_length, config[c].refill_threshold)
                      THEN FALSE ELSE @]
           /\ hist' = [hist EXCEPT
                  ![c].lost        = short,
                  ![c].balance     = IF short THEN 0 ELSE @ + frame.n,
                  ![c].feeds       = IF hist[c].pristine
                                     THEN Min(@ + 1, 2) ELSE 0,
                  ![c].dip_refills =
                      IF new_length > config[c].refill_threshold
                      THEN 0 ELSE @]
           /\ last' = Step("feed_commit", c,
                           IF frame.length # frame.n THEN "clamped"
                           ELSE "whole", FALSE, FALSE, "none")
    /\ pc' = "idle"
    /\ frame' = NoFrame
    /\ UNCHANGED <<system, config, chunk_limit, active_ctx, spu_irq_enable, spu, transfer, caller>>

(* ------------------------------ Stream_Start -------------------------- *)

\* SpuSetKey(on, mask)
SpuSetKey(keys, on, mask) ==
    [ch \in DOMAIN keys |->
        IF (mask \div (2 ^ ch)) % 2 = 1 THEN on ELSE keys[ch]]

\* mutant: only the stream that is bound already is refused
StartAllowed_Other(c) == active_ctx # c

\* if (_active_ctx) return false
StartAllowed(c) == active_ctx = NULL

\* lines 149-150: a stream is bound already
StartRefused(c, resume) ==
    /\ pc = "idle"
    /\ ~StartAllowed(c)
    /\ last' = Step("start", c, "none", FALSE, FALSE, "false")
    /\ UNCHANGED <<system, config, chunk_limit, ctx, active_ctx, spu_irq_enable, spu, transfer,
                   pc, frame, caller, hist>>

\* line 152
StartBind(c, resume) ==
    /\ pc = "idle"
    /\ StartAllowed(c)
    /\ active_ctx' = c
    /\ pc' = IF resume THEN "start_prog" ELSE "start_prime"
    /\ frame' = [NoFrame EXCEPT !.ctx = c, !.resume = resume]
    /\ last' = Step("start", c, "none", FALSE, FALSE, "none")
    /\ UNCHANGED <<system, config, chunk_limit, ctx, spu_irq_enable, spu, transfer, caller, hist>>

\* line 156: the handler is called from the mainline
StartPrime ==
    /\ pc = "start_prime"
    /\ RunIrqHandler(spu_irq_handler)
    /\ pc' = "start_wait"
    /\ frame' = [frame EXCEPT
                    !.runs = @ + 1,
                    !.primed = IF spu_irq_handler.path = "dequeue"
                               THEN ctx'[active_ctx].chunk_counter ELSE 0]
    /\ last' = Step("start_prime", active_ctx, spu_irq_handler.path,
                    spu_irq_handler.refill, spu_irq_handler.underrun, "none")
    /\ UNCHANGED <<system, config, chunk_limit, active_ctx, SPU_CH_ADDR, spu_key, caller>>

\* mutant: the call does not wait
TransferCompleted_NoWait == TRUE

\* SpuIsTransferCompleted(SPU_TRANSFER_WAIT) returns once no transfer is in
\* flight
TransferCompleted == ~transfer.busy

\* line 157: SpuIsTransferCompleted(SPU_TRANSFER_WAIT)
StartWait ==
    /\ pc = "start_wait"
    /\ TransferCompleted
    /\ pc' = "start_prog"
    /\ frame' = [frame EXCEPT !.waited = TRUE]
    /\ last' = Step("start_wait", frame.ctx, "none", FALSE, FALSE, "none")
    /\ UNCHANGED <<system, config, chunk_limit, ctx, active_ctx, spu_irq_enable, spu, transfer,
                   caller, hist>>

\* lines 160-175: key off, channel start addresses
StartProgram ==
    /\ pc = "start_prog"
    /\ LET c == frame.ctx
           address == ChunkAddress(config[c], ctx[c].db_active,
                                   ctx[c].chunk_size)
       IN  /\ spu_key' = SpuSetKey(spu_key, FALSE, config[c].channel_mask)
           /\ SPU_CH_ADDR' = SetChannelAddrs(SPU_CH_ADDR,
                                 config[c].channel_mask, 0, address,
                                 config[c].interleave)
    /\ pc' = "start_kick"
    /\ last' = Step("start_prog", frame.ctx, "none", FALSE, FALSE, "none")
    /\ UNCHANGED <<system, config, chunk_limit, ctx, active_ctx, spu_irq_enable, SPU_IRQ_ADDR,
                   SPU_CH_LOOP_ADDR, transfer, frame, caller, hist>>

\* lines 177-180: the handler once more, key on, return true
StartKick ==
    /\ pc = "start_kick"
    /\ RunIrqHandler(spu_irq_handler)
    /\ spu_key' = SpuSetKey(spu_key, TRUE, config[frame.ctx].channel_mask)
    /\ pc' = "idle"
    /\ frame' = NoFrame
    /\ last' = Step("start_kick", active_ctx, spu_irq_handler.path,
                    spu_irq_handler.refill, spu_irq_handler.underrun, "true")
    /\ UNCHANGED <<system, config, chunk_limit, active_ctx, SPU_CH_ADDR, caller>>

(* ------------------------------ Stream_Stop --------------------------- *)

\* lines 186-187: no stream is bound
StopRefused ==
    /\ pc = "idle"
    /\ active_ctx = NULL
    /\ last' = Step("stop", NULL, "none", FALSE, FALSE, "false")
    /\ UNCHANGED <<system, config, chunk_limit, ctx, active_ctx, spu_irq_enable, spu, transfer,
                   pc, frame, caller, hist>>

\* mutant: the stream stays bound
Stream_Stop_KeepsBound ==
    /\ pc = "idle"
    /\ active_ctx # NULL
    /\ LET mask == config[active_ctx].channel_mask
       IN  /\ SPU_CH_ADDR' = SetChannelAddrs(SPU_CH_ADDR, mask, 0,
                                             DUMMY_BLOCK_ADDR, 0)
           /\ spu_key' = SpuSetKey(SpuSetKey(spu_key, FALSE, mask), TRUE, mask)
    /\ last' = Step("stop", active_ctx, "none", FALSE, FALSE, "true")
    /\ UNCHANGED <<system, config, chunk_limit, ctx, active_ctx,
                   spu_irq_enable, SPU_IRQ_ADDR, SPU_CH_LOOP_ADDR, transfer,
                   pc, frame, caller, hist>>

\* lines 191-201
Stream_Stop ==
    /\ pc = "idle"
    /\ active_ctx # NULL
    /\ LET mask == config[active_ctx].channel_mask
       IN  /\ SPU_CH_ADDR' = SetChannelAddrs(SPU_CH_ADDR, mask, 0,
                                             DUMMY_BLOCK_ADDR, 0)
           /\ spu_key' = SpuSetKey(SpuSetKey(spu_key, FALSE, mask), TRUE, mask)
    /\ active_ctx' = NULL
    /\ last' = Step("stop", active_ctx, "none", FALSE, FALSE, "true")
    /\ UNCHANGED <<system, config, chunk_limit, ctx, spu_irq_enable, SPU_IRQ_ADDR,
                   SPU_CH_LOOP_ADDR, transfer, pc, frame, caller, hist>>

(* ------------------------------ specification ------------------------- *)

Next ==
    \/ SpuIrq
    \/ SpuDma
    \/ SpuDmaNullStore
    \/ SpuDmaNullFault
    \/ \E c \in Ctx : Stream_GetFeedPtr(c)
    \/ \E c \in Ctx : \E n \in FeedLengths(c) : FeedCall(c, n)
    \/ FeedCommit
    \/ \E c \in Ctx : \E resume \in BOOLEAN : StartRefused(c, resume)
    \/ \E c \in Ctx : \E resume \in BOOLEAN : StartBind(c, resume)
    \/ StartPrime
    \/ StartWait
    \/ StartProgram
    \/ StartKick
    \/ StopRefused
    \/ Stream_Stop

Spec == Init /\ [][Next]_vars

SpecTwo == InitTwo /\ [][Next]_vars

\* a buffer of two chunks of two channels
ConfigFair ==
    [ Config1 EXCEPT !.buffer_size = 4, !.refill_threshold = 2 ]

\* one stream with a small buffer, of two channels or of one
InitFair == \E cfg \in {ConfigFair, Config3} : InitWith(<<cfg>>, MaxChunksFair)

\* One stream, with interrupts that are delivered and a mainline that does
\* not stop inside Stream_Start: a pending SPU IRQ is taken, a transfer
\* in flight completes, and a Stream_Start call in progress runs on.
Fairness ==
    /\ WF_vars(SpuIrq)
    /\ WF_vars(SpuDma)
    /\ WF_vars(StartPrime)
    /\ WF_vars(StartWait)
    /\ WF_vars(StartProgram)
    /\ WF_vars(StartKick)

SpecFair == InitFair /\ [][Next]_vars /\ Fairness

(* --------------------- Stream_Init and Stream_Destroy ----------------- *)

Contexts == 1..MaxContexts

\* no context has been initialised yet
InitLife ==
    /\ \E before \in PriorHandlers : InitHandlers(<<>>, before)
    /\ config = <<>>
    /\ chunk_limit = 0
    /\ ctx = <<>>
    /\ active_ctx = NULL
    /\ spu_irq_enable = FALSE
    /\ SPU_IRQ_ADDR = 0
    /\ SPU_CH_LOOP_ADDR = [ch \in Channels |-> DUMMY_BLOCK_ADDR]
    /\ SPU_CH_ADDR = [ch \in Channels |-> DUMMY_BLOCK_ADDR]
    /\ spu_key = [ch \in Channels |-> FALSE]
    /\ transfer = NoTransfer
    /\ pc = "idle"
    /\ frame = NoFrame
    /\ caller = NoCall
    /\ hist = <<>>
    /\ last = Step("init", NULL, "none", FALSE, FALSE, "none")

\* lines 112-135, on a context that is not in use
LifeInit(c, cfg) ==
    /\ IF c \in DOMAIN buffer_data THEN buffer_data[c] = "freed" ELSE TRUE
    /\ config' = (c :> cfg) @@ config
    /\ ctx' = (c :> Stream_Init(cfg)) @@ ctx
    /\ buffer_data' = (c :> "allocated") @@ buffer_data
    /\ old_handler' = (c :> [irq |-> irq_handler, dma |-> dma_handler])
                          @@ old_handler
    /\ irq_handler' = StreamHandlers.irq
    /\ dma_handler' = StreamHandlers.dma
    /\ last' = Step("init", c, "none", FALSE, FALSE, "none")
    /\ UNCHANGED <<prior, chunk_limit, active_ctx, spu_irq_enable, spu,
                   transfer, pc, frame, caller, hist>>

\* lines 137-146, on an initialised context
LifeDestroy(c) ==
    /\ c \in DOMAIN buffer_data /\ buffer_data[c] = "allocated"
    /\ buffer_data' = [buffer_data EXCEPT ![c] = "freed"]
    /\ irq_handler' = old_handler[c].irq
    /\ dma_handler' = old_handler[c].dma
    /\ last' = Step("destroy", c, "none", FALSE, FALSE, "none")
    /\ UNCHANGED <<prior, old_handler, config, chunk_limit, ctx, active_ctx,
                   spu_irq_enable, spu, transfer, pc, frame, caller, hist>>

NextLife ==
    \/ \E c \in Contexts : \E cfg \in {Config2, Config3} : LifeInit(c, cfg)
    \/ \E c \in Contexts : LifeDestroy(c)

SpecLife == InitLife /\ [][NextLife]_vars

(* ------------------------------ properties ---------------------------- *)

Capacity(c) == config[c].buffer_size

\* offsets of the bytes that are buffered and not yet consumed
Buffered(c) ==
    {(ctx[c].tail + i) % Capacity(c) : i \in 0..(ctx[c].length - 1)}

\* a step in which the consumption handler ran (raised by the SPU or called
\* from Stream_Start)
HandlerRan == last'.op \in {"irq", "start_prime", "start_kick"}

\* C1: in every reachable state, for every context, 0 <= length <=
\* capacity, head < capacity, tail < capacity and
\* (tail + length) mod capacity = head.
C1_RingInvariant ==
    \A c \in Ctx :
        /\ 0 <= ctx[c].length /\ ctx[c].length <= Capacity(c)
        /\ 0 <= ctx[c].head /\ ctx[c].head < Capacity(c)
        /\ 0 <= ctx[c].tail /\ ctx[c].tail < Capacity(c)
        /\ (ctx[c].tail + ctx[c].length) % Capacity(c) = ctx[c].head

\* a feed has just been committed into a buffer that chunks were consumed
\* from, and the buffered bytes wrap round its end: head is below tail
C1_Witness ==
    \E c \in Ctx :
        /\ last.op = "feed_commit" /\ last.ctx = c
        /\ ctx[c].chunk_counter >= 1
        /\ ctx[c].head < ctx[c].tail
        /\ ctx[c].length > 0

\* the step that ends a Stream_Feed call which asked for more than the free
\* space it measured on entry
ClampedCommit == pc = "feed" /\ pc' = "idle" /\ frame.n > frame.unbuf_total

\* C2 as stated: Stream_Feed(n) with n above the free space commits
\* exactly that free space: length becomes capacity, head advances by the
\* free amount mod capacity, and head does not pass tail.
C2_Original ==
    [][ClampedCommit =>
        LET c == frame.ctx IN
        /\ ctx'[c].length = Capacity(c)
        /\ ctx'[c].head = (ctx[c].head + frame.unbuf_total) % Capacity(c)
        /\ ctx'[c].length <= Capacity(c)]_vars

\* C2 amended: Stream_Feed(n) with n above the free space measured on entry
\* commits exactly that measured amount: length grows by it, head advances
\* by it mod capacity, length stays within capacity, and length becomes
\* capacity when no chunk was consumed between the measurement and the
\* critical section.
C2_FeedClamped ==
    [][ClampedCommit =>
        LET c == frame.ctx IN
        /\ ctx'[c].length = ctx[c].length + frame.unbuf_total
        /\ ctx'[c].head = (ctx[c].head + frame.unbuf_total) % Capacity(c)
        /\ ctx'[c].length <= Capacity(c)
        /\ (ctx[c].length = Capacity(c) - frame.unbuf_total
                => ctx'[c].length = Capacity(c))]_vars

\* a clamped feed has been committed after a chunk was consumed during the
\* call: the buffer is not full
C2_Witness ==
    /\ last.op = "feed_commit" /\ last.path = "clamped"
    /\ ctx[last.ctx].length < Capacity(last.ctx)
    /\ ctx[last.ctx].length > 0

\* C3: from a fresh context and with no chunk consumed, after any sequence
\* of Stream_GetFeedPtr / Stream_Feed(n) pairs with n at most the length
\* just returned, no byte was dropped, length is the sum of the n, and
\* length is at most capacity.
C3_FeedSum ==
    \A c \in Ctx :
        hist[c].pristine =>
            /\ ctx[c].chunk_counter = 0
            /\ ~hist[c].lost
            /\ ctx[c].length = hist[c].balance
            /\ ctx[c].length <= Capacity(c)

\* two or more such feeds have filled the buffer
C3_Witness ==
    \E c \in Ctx :
        /\ last.op = "feed_commit" /\ last.ctx = c
        /\ hist[c].pristine
        /\ hist[c].feeds = 2
        /\ ctx[c].length = Capacity(c)

\* C4: the underrun callback is invoked in a step iff the consumption
\* handler runs in it for a bound stream (whose callback is registered)
\* with length < chunk_size, and then head, tail and length are unchanged.
C4_Underrun ==
    [][/\ last'.underrun =>
            /\ HandlerRan
            /\ active_ctx # NULL
            /\ ctx[active_ctx].length < ctx[active_ctx].chunk_size
            /\ ctx'[active_ctx].tail = ctx[active_ctx].tail
            /\ ctx'[active_ctx].length = ctx[active_ctx].length
            /\ ctx'[active_ctx].head = ctx[active_ctx].head
       /\ ( /\ HandlerRan
            /\ active_ctx # NULL
            /\ config[active_ctx].underrun_callback
            /\ ctx[active_ctx].length < ctx[active_ctx].chunk_size )
            => last'.underrun]_vars

\* the SPU raised its IRQ on half a chunk: the callback fired and the half
\* chunk is still there
C4_Witness ==
    /\ last.op = "irq" /\ last.underrun
    /\ ctx[last.ctx].length > 0
    /\ ctx[last.ctx].length < ctx[last.ctx].chunk_size

C6_Refusals ==
    [][/\ (pc = "idle" /\ last'.op = "start" /\ active_ctx # NULL) =>
            /\ last'.ret = "false"
            /\ UNCHANGED <<active_ctx, ctx, spu_irq_enable, spu, transfer,
                           pc, hist>>
       /\ (pc = "idle" /\ last'.op = "stop" /\ active_ctx = NULL) =>
            /\ last'.ret = "false"
            /\ UNCHANGED <<active_ctx, ctx, spu_irq_enable, spu, transfer,
                           pc, hist>>
       /\ active_ctx' # active_ctx =>
            (active_ctx = NULL \/ active_ctx' = NULL)]_vars

\* a stream that has consumed a chunk is bound, and Stream_Start of the
\* other context has just returned false
C6_Witness ==
    /\ last.op = "start" /\ last.ret = "false"
    /\ active_ctx # NULL
    /\ last.ctx # active_ctx
    /\ ctx[active_ctx].chunk_counter > 0

\* C7: the consumption logic dequeues a chunk (raised by the SPU or called
\* from Stream_Start) only when no chunk transfer is in flight and
\* buffering is false, and the SPU IRQ is disabled for as long as a
\* transfer is in flight.
C7_Handshake ==
    [][/\ ( /\ HandlerRan
            /\ active_ctx # NULL
            /\ ctx[active_ctx].length >= ctx[active_ctx].chunk_size )
            => (~ctx[active_ctx].buffering /\ ~transfer.busy)
       /\ transfer'.busy => ~spu_irq_enable']_vars

\* C8: a consumption-handler run for a bound stream that holds at least a
\* chunk takes chunk_size off length, moves tail on by chunk_size modulo
\* capacity, and leaves head alone.
C8_Consume ==
    [][( /\ HandlerRan
         /\ active_ctx # NULL
         /\ ctx[active_ctx].length >= ctx[active_ctx].chunk_size ) =>
        LET c == active_ctx IN
        /\ ctx'[c].length = ctx[c].length - ctx[c].chunk_size
        /\ ctx'[c].tail = (ctx[c].tail + ctx[c].chunk_size) % Capacity(c)
        /\ ctx'[c].head = ctx[c].head]_vars

\* a consumption has just wrapped the tail back to the start of the buffer
C8_Witness ==
    /\ last.op = "irq" /\ last.path = "dequeue"
    /\ ctx[last.ctx].tail = 0
    /\ ctx[last.ctx].length > 0

\* C9: whenever as many bytes have been consumed as were fed (none of them
\* dropped by a clamp), length is zero and head equals tail.
C9_RoundTrip ==
    \A c \in Ctx :
        (~hist[c].lost /\ hist[c].balance = 0) =>
            (ctx[c].length = 0 /\ ctx[c].head = ctx[c].tail)

\* twice the capacity has gone through the buffer, which is empty again
C9_Witness ==
    \E c \in Ctx :
        /\ ~hist[c].lost /\ hist[c].balance = 0
        /\ ctx[c].chunk_counter * ctx[c].chunk_size >= 2 * Capacity(c)
        /\ ctx[c].length = 0
        /\ last.path = "dequeue"

\* what C10 says of the length Stream_GetFeedPtr has just returned
FeedRegionSound(c) ==
    /\ caller.len = Min(Capacity(c) - ctx[c].length, Capacity(c) - ctx[c].head)
    /\ (caller.len = 0) = (ctx[c].length = Capacity(c))
    /\ (caller.len = 0) = (Stream_GetRefillLength(c) = 0)
    /\ caller.len <= Stream_GetRefillLength(c)
    /\ ctx[c].head + caller.len <= Capacity(c)
    /\ {ctx[c].head + i : i \in 0..(caller.len - 1)} \cap Buffered(c) = {}

\* C10 as stated: Stream_GetFeedPtr returns a pointer at offset head and
\* the length min(capacity - length, capacity - head), which is zero
\* exactly when the buffer is full, is at most Stream_GetRefillLength, and
\* bounds a region inside the buffer that holds no buffered byte.
C10_Original ==
    last.op = "get_feed_ptr" =>
        /\ caller.ptr = ctx[last.ctx].head
        /\ FeedRegionSound(last.ctx)

\* C10 amended: the same, except that the pointer is at offset head when
\* the returned length is not zero; when it is zero (the buffer is full)
\* nothing is stored through ptr.
C10_FeedPtr ==
    last.op = "get_feed_ptr" =>
        /\ caller.len > 0 => caller.ptr = ctx[last.ctx].head
        /\ caller.len = 0 => caller.ptr = Unwritten
        /\ FeedRegionSound(last.ctx)

\* the free space wraps: the length returned is cut at the end of the
\* buffer and is less than Stream_GetRefillLength
C10_Witness ==
    /\ last.op = "get_feed_ptr"
    /\ caller.len > 0
    /\ caller.len < Stream_GetRefillLength(last.ctx)
    /\ ctx[last.ctx].length > 0

\* C11: once one or more contexts have been initialised and every one of
\* them has been destroyed (in any order), the installed SPU IRQ and SPU
\* DMA callbacks are the ones installed before the first Stream_Init.
C11_DestroySymmetric ==
    (buffer_data # <<>> /\ \A c \in DOMAIN buffer_data : buffer_data[c] = "freed")
        => (irq_handler = prior.irq /\ dma_handler = prior.dma)

\* a step in which the consumption handler ran for a bound stream and
\* pulled a chunk
DequeueRan == HandlerRan /\ last'.path = "dequeue"

\* ... and one in which it found less than a chunk
UnderrunRan == HandlerRan /\ last'.path = "underrun"

\* C12 as stated: every run of the consumption handler for a bound stream
\* toggles db_active, and nothing else changes it.
C12_Original ==
    [][\A c \in Ctx :
        IF HandlerRan /\ active_ctx = c
        THEN ctx'[c].db_active = 1 - ctx[c].db_active
        ELSE ctx'[c].db_active = ctx[c].db_active]_vars

\* C12 amended: db_active is toggled exactly once by every run of the
\* consumption handler that dequeues a chunk (length >= chunk_size on
\* entry); a run that finds an underrun leaves it alone, and so does every
\* other step.
C12_Toggle ==
    [][\A c \in Ctx :
        IF /\ HandlerRan /\ active_ctx = c
           /\ ctx[c].length >= ctx[c].chunk_size
        THEN ctx'[c].db_active = 1 - ctx[c].db_active
        ELSE ctx'[c].db_active = ctx[c].db_active]_vars

\* the handler ran on an empty buffer after an odd number of chunks: the
\* index still names the second half
C12_Witness ==
    /\ last.op = "irq" /\ last.path = "underrun"
    /\ ctx[last.ctx].chunk_counter = 3
    /\ ctx[last.ctx].db_active = 1
    /\ ctx[last.ctx].length = 0

\* C13: a run of the handler that dequeues starts its upload at
\* spu_address + (db_active ? chunk_size : 0), db_active taken after the
\* toggle, and sets the trigger address to the same place; two successive
\* dequeuing runs target opposite halves; an underrun run changes neither
\* the trigger address, the loop addresses, db_active nor the transfer.
C13_Halves ==
    [][/\ DequeueRan =>
            LET c == active_ctx
                half == config[c].spu_address +
                           (IF ctx'[c].db_active = 1 THEN ctx[c].chunk_size
                            ELSE 0)
            IN  /\ ctx'[c].db_active = 1 - ctx[c].db_active
                /\ transfer'.busy /\ transfer'.dst = half
                /\ transfer'.size = ctx[c].chunk_size
                /\ transfer'.src = ctx[c].tail
                /\ SPU_IRQ_ADDR' = half
                /\ ctx[c].chunk_counter > 0 =>
                       /\ SPU_IRQ_ADDR \in {half + ctx[c].chunk_size,
                                             half - ctx[c].chunk_size}
                       /\ SPU_IRQ_ADDR # half
       /\ UnderrunRan =>
            /\ UNCHANGED <<SPU_IRQ_ADDR, SPU_CH_LOOP_ADDR, transfer>>
            /\ ctx'[active_ctx].db_active = ctx[active_ctx].db_active]_vars

\* the fourth chunk is on its way to the first half, where the SPU will
\* raise its next IRQ
C13_Witness ==
    /\ last.op = "irq" /\ last.path = "dequeue"
    /\ ctx[last.ctx].chunk_counter = 4
    /\ transfer.busy /\ transfer.dst = config[last.ctx].spu_address
    /\ SPU_IRQ_ADDR = config[last.ctx].spu_address

\* a bound stream that holds a chunk or more after k chunks were consumed,
\* k below the number of chunks this specification counts
FedAt(c, k) ==
    /\ active_ctx = c
    /\ ctx[c].length >= ctx[c].chunk_size
    /\ ctx[c].chunk_counter = k
    /\ k < chunk_limit

\* C14: a handler run that finds an underrun returns with the SPU IRQ
\* enabled; and whenever a bound stream holds a chunk or more (after an
\* underrun and a feed in particular), a later run of the handler dequeues
\* a chunk unless the stream is stopped first.
C14_NoStall ==
    /\ [][UnderrunRan => spu_irq_enable']_vars
    /\ \A k \in 0..MaxChunksFair :
          FedAt(1, k) ~> (ctx[1].chunk_counter > k \/ active_ctx # 1)

\* a stream was started on an empty buffer, so that every handler run so
\* far met an underrun, and has now been fed a chunk: the SPU IRQ is
\* enabled and no transfer is in flight
C14_Witness ==
    /\ last.op = "feed_commit" /\ pc = "idle"
    /\ active_ctx = last.ctx
    /\ ctx[last.ctx].chunk_counter = 0
    /\ ctx[last.ctx].length >= ctx[last.ctx].chunk_size
    /\ spu_irq_enable /\ ~transfer.busy

\* the step in which a Stream_Start call runs the handler for the last
\* time, keys the channels on and returns
StartReturns == pc = "start_kick" /\ pc' = "idle"

\* the chunk the first handler call of this Stream_Start dequeued is still
\* on its way to the SPU
PrimedInFlight ==
    /\ transfer.busy /\ transfer.ctx = frame.ctx
    /\ ctx[frame.ctx].chunk_counter = frame.primed

\* what C15 says of every successful Stream_Start besides the priming: the
\* channels are keyed off until the call's last handler run, which is its
\* second with resume = false (after the wait) and its only one with
\* resume = true (no wait), and are keyed on as it returns true
StartSequence ==
    LET c == frame.ctx
        mine == {ch \in Channels : (config[c].channel_mask \div (2 ^ ch)) % 2 = 1}
    IN  /\ last'.op = "start_kick" /\ last'.ret = "true"
        /\ \A ch \in mine : ~spu_key[ch] /\ spu_key'[ch]
        /\ IF frame.resume
           THEN frame.runs = 0 /\ ~frame.waited
           ELSE frame.runs = 1 /\ frame.waited

C16_Stopped ==
    [][/\ (last'.op = "stop" /\ last'.ret = "true") => active_ctx' = NULL
       /\ active_ctx = NULL =>
            /\ ~last'.refill /\ ~last'.underrun
            /\ HandlerRan =>
                  /\ last'.path = "null"
                  /\ UNCHANGED <<ctx, spu, transfer, hist>>
            /\ \A c \in Ctx :
                  ctx'[c] # ctx[c] =>
                     /\ pc = "feed" /\ frame.ctx = c
                     /\ ctx'[c].tail = ctx[c].tail
                     /\ ctx'[c].db_active = ctx[c].db_active
                     /\ ctx'[c].buffering = ctx[c].buffering
                     /\ ctx'[c].chunk_counter = ctx[c].chunk_counter]_vars

\* the SPU raised its IRQ after Stream_Stop on a stream that has played and
\* still holds a chunk: the handler returned at once
C16_Witness ==
    /\ last.op = "irq" /\ last.path = "null"
    /\ active_ctx = NULL
    /\ \E c \in Ctx : /\ ctx[c].chunk_counter >= 1
                       /\ ctx[c].length >= ctx[c].chunk_size

\* offsets of the ring buffer the transfer in flight reads from
InFlight == {transfer.src + i : i \in 0..(transfer.size - 1)}

\* C17: when Stream_GetFeedPtr returns while a chunk of the same context
\* is being transferred, the region it hands out, [ptr, ptr + length), has
\* no byte in common with the chunk [old tail, old tail + chunk_size) the
\* transfer reads.
C17_NoOverlap ==
    (last.op = "get_feed_ptr" /\ transfer.busy /\ transfer.ctx = last.ctx) =>
        {caller.ptr + i : i \in 0..(caller.len - 1)} \cap InFlight = {}

\* C18: whenever the transfer-completion handler runs, a stream is bound.
C18_DmaBound == last.op = "dma" => last.ctx # NULL

\* C19: for a context whose capacity is a positive multiple of chunk_size,
\* tail is a multiple of chunk_size in every state, and the chunk a
\* transfer reads ends within the buffer.
C19_TailAligned ==
    \A c \in Ctx :
        (Capacity(c) > 0 /\ Capacity(c) % ctx[c].chunk_size = 0) =>
            /\ ctx[c].tail % ctx[c].chunk_size = 0
            /\ ctx[c].tail + ctx[c].chunk_size <= Capacity(c)
            /\ (transfer.busy /\ transfer.ctx = c) =>
                   /\ transfer.src % ctx[c].chunk_size = 0
                   /\ transfer.src + transfer.size <= Capacity(c)

\* the chunk at the very end of such a buffer is being transferred and the
\* tail is back at 0
C19_Witness ==
    /\ last.path = "dequeue"
    /\ Capacity(last.ctx) % ctx[last.ctx].chunk_size = 0
    /\ transfer.busy
    /\ transfer.src + transfer.size = Capacity(last.ctx)
    /\ ctx[last.ctx].tail = 0

\* C20: for a stream with both callbacks registered, a handler run that
\* leaves length at or below the threshold either invoked the underrun
\* callback or leaves callback_issued true; and in every state
\* callback_issued implies that length is at or below the threshold and
\* that the refill callback was invoked since length was last above it.
C20_Notified ==
    \A c \in Ctx :
        (config[c].refill_callback /\ config[c].underrun_callback) =>
            /\ ( /\ last.op \in {"irq", "start_prime", "start_kick"}
                 /\ last.ctx = c
                 /\ ctx[c].length <= config[c].refill_threshold )
                 => (last.underrun \/ ctx[c].callback_issued)
            /\ ctx[c].callback_issued =>
                 /\ ctx[c].length <= config[c].refill_threshold
                 /\ hist[c].dip_refills >= 1

\* a second chunk has been consumed below the threshold: no callback this
\* time, the flag is still set from the first
C20_Witness ==
    /\ last.op = "irq" /\ last.path = "dequeue"
    /\ ~last.refill /\ ~last.underrun
    /\ config[last.ctx].refill_callback /\ config[last.ctx].underrun_callback
    /\ ctx[last.ctx].callback_issued
    /\ ctx[last.ctx].length < config[last.ctx].refill_threshold

====
